---- MODULE Spec2Model ----
(***************************************************************************)
(* PnlChart (bot-bliss-charts): the pointer-driven resize hook useResize,  *)
(* the props of the PnlChart component and the projection of the history   *)
(* log into chart rows.                                                    *)
(*                                                                         *)
(* React state (height, width) is modelled as committed at the end of the  *)
(* handler that sets it; refs (dragging, dir, startPos, startSize) are     *)
(* plain mutable cells shared by every closure of one mount.  The window   *)
(* listeners added by onResizeStart are closures over those refs, so they  *)
(* are indistinguishable and are counted (listeners).                      *)
(***************************************************************************)
EXTENDS Integers, Sequences, FiniteSets, TLC

VARIABLES
    height,      \* useState(initialHeight)
    width,       \* useState<number | null>(null): <<>> is null, <<w>> is w
    dragging,    \* useRef(false)
    dir,         \* useRef<ResizeDir>("bottom")
    startPos,    \* useRef({x: 0, y: 0})
    startSize,   \* useRef({w: 0, h: 0})
    listeners,   \* number of (onMove, onUp) pairs attached to window
    mounted,     \* the component instance is mounted
    history,     \* prop history: HistoryEntry[]
    bots,        \* prop bots: UIBot[]
    mode,        \* prop mode
    variant,     \* prop variant
    data,        \* useMemo(() => history.map(...), [history])
    view,        \* what the last render of PnlChart returned
    tooltip,     \* the props the chart library gave ChartTooltipContent, and
                 \* what it returned
    lastEv,      \* observation: the event handled by the last step
    gesture      \* observation: what the last pointer-down saw

vars == <<height, width, dragging, dir, startPos, startSize, listeners,
          mounted, history, bots, mode, variant, data, view, tooltip,
          lastEv, gesture>>

resizeVars == <<height, width, dragging, dir, startPos, startSize, listeners>>
renderVars == <<width, dragging, dir, startPos, startSize, listeners>>
propVars == <<history, bots, mode, variant, data>>
outVars == <<view, tooltip>>

----------------------------------------------------------------------------
(* Program constants *)

MIN_HEIGHT == 200
MAX_HEIGHT == 800
MIN_WIDTH == 300
InitialHeight == 360
DefaultOffsetWidth == 600
PaletteSize == 8

(* Bounds of the model *)

MaxListeners == 2      \* pointer-downs without a pointer-up in between
MaxWidth == 600        \* widths above this are not explored
MaxHistLen == 2        \* entries in a history
MaxEntryBots == 2      \* (id, pnl) pairs in one entry
MaxBots == 9           \* bots in the bots list of the legend specification
MaxPayload == 3        \* items in a tooltip payload

(* Inputs *)

Xs == {0, 300}
Ys == {0, 50, 100000}
OffsetWidths == {250, 600}
Dirs == {"bottom", "right", "corner"}
Variants == {"minimal", "grid-glow", "split-area", "neon"}
Modes == {"live", "realized"}
Ids == {"A", "B", "t"}
Pnls == {-5, 12}
Ts == {1000, 2000}

Null == <<>>
Some(w) == <<w>>

Min(a, b) == IF a < b THEN a ELSE b
Max(a, b) == IF a > b THEN a ELSE b

----------------------------------------------------------------------------
(* useResize *)

\* containerRef.current?.offsetWidth ?? 600
CurrentW(offsetWidth) ==
    IF offsetWidth = Null THEN DefaultOffsetWidth ELSE offsetWidth[1]

\* variant: the measured width is taken even when a width is committed
StartSizeMeasured(w, h, currentW) == [w |-> currentW, h |-> h]

\* startSize.current = { w: width ?? currentW, h: height }
StartSizeAt(w, h, currentW) ==
    [w |-> IF w = Null THEN currentW ELSE w[1], h |-> h]

\* variant: the upper clamp is missing
NewHeightNoMax(startH, dy) == Max(MIN_HEIGHT, startH + dy)

\* variant: the delta is added to the current height, not to the start height
NewHeightFromCurrent(startH, dy) ==
    Min(MAX_HEIGHT, Max(MIN_HEIGHT, height + dy))

\* Math.min(MAX_HEIGHT, Math.max(MIN_HEIGHT, startSize.current.h + dy))
NewHeight(startH, dy) == Min(MAX_HEIGHT, Max(MIN_HEIGHT, startH + dy))

\* Math.max(MIN_WIDTH, startSize.current.w + dx)
NewWidth(startW, dx) == Max(MIN_WIDTH, startW + dx)

\* d === "bottom" || d === "corner"
AffectsHeight(d) == d = "bottom" \/ d = "corner"

\* variant: every handle resizes the width
AffectsWidthAlways(d) == TRUE

\* d === "right" || d === "corner"
AffectsWidth(d) == d = "right" \/ d = "corner"

\* variant: a mouseup removes only the pair of the latest pointer-down
ListenersAfterUpLatestOnly(n) == IF n > 0 THEN n - 1 ELSE 0

\* variant: the first onUp stops the dispatch, the other pairs stay
ListenersAfterUpKeepsOthers(n) == IF n > 1 THEN n - 1 ELSE 0

\* the listener pairs left on window after one mouseup: every attached onUp
\* runs and removes its own pair
ListenersAfterUp(n) == 0

\* variant: a pointer-down during a gesture ends the gesture
DraggingAfterDownToggle(wasDragging) == ~wasDragging

\* dragging.current = true
DraggingAfterDown(wasDragging) == TRUE

\* variant: a re-render starts the hook state over
HeightAfterRenderReset(h) == InitialHeight

\* useState(initialHeight) on a re-render of the same instance: the initial
\* value is ignored and the state is kept
HeightAfterRender(h) == h

\* the listener pairs left on window after the component unmounts: the hook
\* registers no cleanup
ListenersAfterUnmount(n) == n

\* n: the number of onUp closures a mouseup ran
Ev(type, x, y) == [type |-> type, x |-> x, y |-> y, n |-> 0]

\* onResizeStart(direction)(e): a mousedown on one of the three handles
PointerDown(direction, x, y, offsetWidth) ==
    /\ mounted
    /\ listeners < MaxListeners
    /\ dragging' = DraggingAfterDown(dragging)
    /\ dir' = direction
    /\ startPos' = [x |-> x, y |-> y]
    /\ startSize' = StartSizeAt(width, height, CurrentW(Some(offsetWidth)))
    /\ listeners' = listeners + 1
    /\ lastEv' = Ev("down", 0, 0)
    /\ gesture' = [dir |-> direction, x |-> x, y |-> y, h |-> height,
                   w |-> width, offsetWidth |-> offsetWidth]
    /\ UNCHANGED <<height, width, mounted, propVars, outVars>>

\* the value of height after every attached onMove ran for one mousemove
HeightAfterMove(y) ==
    IF listeners > 0 /\ dragging /\ mounted /\ AffectsHeight(dir)
    THEN NewHeight(startSize.h, y - startPos.y)
    ELSE height

\* the value of width after every attached onMove ran for one mousemove
WidthAfterMove(x) ==
    IF listeners > 0 /\ dragging /\ mounted /\ AffectsWidth(dir)
    THEN Some(NewWidth(startSize.w, x - startPos.x))
    ELSE width

\* a mousemove on window: every attached onMove runs
PointerMove(x, y) ==
    /\ \A i \in DOMAIN WidthAfterMove(x) : WidthAfterMove(x)[i] <= MaxWidth
    /\ height' = HeightAfterMove(y)
    /\ width' = WidthAfterMove(x)
    /\ lastEv' = Ev("move", x, y)
    /\ UNCHANGED <<dragging, dir, startPos, startSize, listeners, mounted,
                   propVars, outVars, gesture>>

\* a mouseup on window: every attached onUp runs
PointerUp ==
    /\ dragging' = IF listeners > 0 THEN FALSE ELSE dragging
    /\ listeners' = ListenersAfterUp(listeners)
    /\ lastEv' = [Ev("up", 0, 0) EXCEPT !.n = listeners]
    /\ UNCHANGED <<height, width, dir, startPos, startSize, mounted,
                   propVars, outVars, gesture>>

\* the component is removed from the tree; useResize has no effect cleanup
Unmount ==
    /\ mounted
    /\ mounted' = FALSE
    /\ listeners' = ListenersAfterUnmount(listeners)
    /\ lastEv' = Ev("unmount", 0, 0)
    /\ UNCHANGED <<height, width, dragging, dir, startPos, startSize,
                   propVars, outVars, gesture>>

----------------------------------------------------------------------------
(* PnlChart: props and the projected rows *)

\* row[k] = v on an object literal
AssignKey(row, k, v) ==
    [key \in (DOMAIN row) \cup {k} |-> IF key = k THEN v ELSE row[key]]

\* entry.bots.forEach((b) => { row[b.id] = b.pnl; })
RECURSIVE FillRow(_, _)
FillRow(row, bs) ==
    IF bs = <<>> THEN row
    ELSE FillRow(AssignKey(row, Head(bs).id, Head(bs).pnl), Tail(bs))

\* const row = { t: entry.t }; entry.bots.forEach(...); return row
ProjectEntry(entry) == FillRow([key \in {"t"} |-> entry.t], entry.bots)

\* history.map((entry) => ...)
Project(h) == [i \in 1..Len(h) |-> ProjectEntry(h[i])]

\* the (id, pnl) lists of one entry: ids are unique within an entry
RECURSIVE BotSeqs(_)
BotSeqs(n) ==
    IF n = 0 THEN {<<>>}
    ELSE LET shorter == BotSeqs(n - 1)
         IN  shorter \cup
             {Append(bs, [id |-> id, pnl |-> p]) :
                 bs \in {s \in shorter : Len(s) = n - 1},
                 id \in Ids, p \in Pnls}

UniqueIds(bs) == \A i, j \in 1..Len(bs) : bs[i].id = bs[j].id => i = j

Entries ==
    {[t |-> t, bots |-> bs] :
        t \in Ts, bs \in {s \in BotSeqs(MaxEntryBots) : UniqueIds(s)}}

RECURSIVE Histories(_)
Histories(n) ==
    IF n = 0 THEN {<<>>}
    ELSE LET shorter == Histories(n - 1)
         IN  shorter \cup
             {Append(h, e) : h \in {s \in shorter : Len(s) = n - 1},
                             e \in Entries}

\* the entries the live page appends on its timer: every bot of the page
LiveEntries ==
    {[t |-> 2000, bots |-> <<[id |-> "A", pnl |-> 12], [id |-> "B", pnl |-> -5]>>]}

UIBot(id, strategy, live, realized) ==
    [botId |-> id, strategy |-> strategy, livePnl |-> live,
     realizedPnl |-> realized]

BotA == UIBot("A", "Momentum Alpha", 342, 280)
BotB == UIBot("B", "Mean Reversion", -124, -89)

BotLists == {<<BotA, BotB>>, <<BotB>>}

\* the bots a page may pass, in registration order
RosterBots ==
    <<BotA, BotB,
      UIBot("bot3", "Scalper V2", 78, 156),
      UIBot("bot4", "Grid Trader", -45, 12),
      UIBot("bot5", "Breakout", 0, -3),
      UIBot("bot6", "Carry", 15, 15),
      UIBot("bot7", "Pairs", -7, 21),
      UIBot("bot8", "Arbitrage", 99, -99),
      UIBot("bot9", "Trend", 5, 6),
      UIBot("bot10", "Hedger", -1, 1)>>

\* the bots lists of at most MaxBots bots: the roster with bots removed from
\* its front and its back
ViewBotLists ==
    {SubSeq(RosterBots, a, b) : a \in 1..(MaxBots + 1), b \in 0..MaxBots}

----------------------------------------------------------------------------
(* PnlChart: legend, series and visual encoding *)

LINE_COLORS ==
    <<"#58a6ff", "#f0883e", "#3fb950", "#d2a8ff",
      "#f778ba", "#79c0ff", "#ffd33d", "#a5d6ff">>

\* variant: indexes past the palette take its last colour
ColorIndexClamped(i, n) == Min(i, n - 1)

\* i % colors.length, i counted from 0
ColorIndex(i, n) == i % n

\* colors[i % colors.length], i counted from 0
ColorAt(colors, i) == colors[ColorIndex(i, Len(colors)) + 1]

\* v >= 0 ? "#3fb950" : "#f85149"
pnlColor(v) == IF v >= 0 THEN "#3fb950" ELSE "#f85149"

\* v >= 0 ? `$${v.toFixed(2)}` : `-$${Math.abs(v).toFixed(2)}`: the prefix
\* and the amount that is printed with two decimals
formatUsd(v) ==
    IF v >= 0 THEN [prefix |-> "$", amount |-> v]
    ELSE [prefix |-> "-$", amount |-> 0 - v]

\* variant: the two fields are swapped
LegendValSwapped(b, m) == IF m = "live" THEN b.realizedPnl ELSE b.livePnl

\* const val = mode === "live" ? b.livePnl : b.realizedPnl
LegendVal(b, m) == IF m = "live" THEN b.livePnl ELSE b.realizedPnl

\* bots.map((b, i) => <div key={b.botId}> swatch, strategy, value </div>)
ChartLegend(bs, m, colors) ==
    [i \in 1..Len(bs) |->
        [key |-> bs[i].botId,
         swatch |-> ColorAt(colors, i - 1),
         label |-> bs[i].strategy,
         val |-> LegendVal(bs[i], m),
         text |-> formatUsd(LegendVal(bs[i], m)),
         color |-> pnlColor(LegendVal(bs[i], m))]]

\* bots.map((b) => b.botId)
botIds(bs) == [i \in 1..Len(bs) |-> bs[i].botId]

\* variant === "neon"
isNeon(v) == v = "neon"

\* variant: the neon variant draws no grid
showGridOnlyGridGlow(v) == v = "grid-glow"

\* variant === "grid-glow" || variant === "neon"
showGrid(v) == v = "grid-glow" \/ v = "neon"

\* isNeon ? 2.5 : 1.5, in tenths of a pixel
strokeW(v) == IF isNeon(v) THEN 25 ELSE 15

\* <CartesianGrid .../>: "none" when it is not rendered, else whether its
\* lines are dashed ("3 3") or solid, and whether vertical lines are drawn
Grid(v) ==
    IF v = "split-area" THEN [lines |-> "dashed", vertical |-> FALSE]
    ELSE IF showGrid(v)
         THEN [lines |-> IF v = "neon" THEN "solid" ELSE "dashed",
               vertical |-> FALSE]
         ELSE [lines |-> "none", vertical |-> FALSE]

\* botIds.map((id, i) => <Area .../>) or <Line .../>: fill is the entity
\* whose gradient fills the area, strokeWidth is in tenths of a pixel
Series(bs, v) ==
    [i \in 1..Len(bs) |->
        [dataKey |-> botIds(bs)[i],
         stroke |-> ColorAt(LINE_COLORS, i - 1),
         strokeWidth |-> IF v = "split-area" THEN 15 ELSE strokeW(v),
         fill |-> IF v = "split-area" THEN Some(botIds(bs)[i]) ELSE Null,
         glow |-> v # "split-area" /\ isNeon(v),
         dot |-> FALSE,
         activeDot |-> FALSE,
         isAnimationActive |-> FALSE]]

\* what PnlChart returns for its props
Render(bs, m, v) ==
    [kind |-> IF v = "split-area" THEN "area" ELSE "line",
     legend |-> ChartLegend(bs, m, LINE_COLORS),
     gradients |-> IF v = "split-area" THEN botIds(bs) ELSE <<>>,
     neonDefs |-> v # "split-area" /\ isNeon(v),
     grid |-> Grid(v),
     zeroLine |-> TRUE,
     series |-> Series(bs, v)]

----------------------------------------------------------------------------
(* ChartTooltipContent *)

\* bots.find((b) => b.botId === p.dataKey)?.strategy ?? p.dataKey
TooltipName(p, bs) ==
    LET hits == {i \in 1..Len(bs) : bs[i].botId = p.dataKey}
    IN  IF hits = {} THEN p.dataKey
        ELSE bs[CHOOSE i \in hits : \A j \in hits : i <= j].strategy

\* payload.map((p) => ({ name, value: p.value, color: p.stroke }))
RECURSIVE TooltipItems(_, _)
TooltipItems(payload, bs) ==
    IF payload = <<>> THEN <<>>
    ELSE <<[name |-> TooltipName(Head(payload), bs),
            value |-> Head(payload).value,
            color |-> Head(payload).stroke]>>
         \o TooltipItems(Tail(payload), bs)

\* variant: the comparator is a.value - b.value
ComesBeforeAscending(a, b) == a.value - b.value < 0

\* variant: an item is also put before the items it is equal to
ComesBeforeOrEqual(a, b) == b.value - a.value <= 0

\* the comparator (a, b) => b.value - a.value is negative: a sorts before b
ComesBefore(a, b) == b.value - a.value < 0

\* Array.prototype.sort is stable: an item goes after every item that it
\* does not sort before
RECURSIVE InsertSorted(_, _)
InsertSorted(sorted, it) ==
    IF sorted = <<>> THEN <<it>>
    ELSE IF ComesBefore(it, Head(sorted)) THEN <<it>> \o sorted
         ELSE <<Head(sorted)>> \o InsertSorted(Tail(sorted), it)

\* items.sort((a, b) => b.value - a.value)
RECURSIVE SortItems(_)
SortItems(items) ==
    IF items = <<>> THEN <<>>
    ELSE InsertSorted(SortItems(SubSeq(items, 1, Len(items) - 1)),
                      items[Len(items)])

\* if (!active || !payload?.length) return null; else the sorted rows
ChartTooltipContent(active, payload, bs) ==
    IF ~active \/ Len(payload) = 0
    THEN [shown |-> FALSE, items |-> <<>>]
    ELSE [shown |-> TRUE, items |-> SortItems(TooltipItems(payload, bs))]

\* the tooltip after the chart library called ChartTooltipContent
TooltipOf(active, payload, bs) ==
    [active |-> active, payload |-> payload,
     out |-> ChartTooltipContent(active, payload, bs)]

\* the payloads of the chart library: one item per series that has a point,
\* in series order, each with the stroke of its series
UniqueKeys(pl) ==
    \A i, j \in 1..Len(pl) : pl[i].dataKey = pl[j].dataKey => i = j

RECURSIVE Payloads(_)
Payloads(n) ==
    IF n = 0 THEN {<<>>}
    ELSE LET shorter == Payloads(n - 1)
             longer ==
                 {Append(pl, [dataKey |-> id, value |-> v, stroke |-> c]) :
                     pl \in {s \in shorter : Len(s) = n - 1},
                     id \in Ids, v \in Pnls,
                     c \in {LINE_COLORS[1], LINE_COLORS[2]}}
         IN  shorter \cup {pl \in longer : UniqueKeys(pl)}

\* the pointer moves over the chart or leaves it: the chart library renders
\* the tooltip content with its props
Hover(active, payload) ==
    /\ mounted
    /\ tooltip' = TooltipOf(active, payload, bots)
    /\ lastEv' = Ev("hover", 0, 0)
    /\ UNCHANGED <<resizeVars, mounted, propVars, view, gesture>>

----------------------------------------------------------------------------
(* PnlChart: re-renders by the parent *)

\* variant: the area chart drops the first row
RowsForResampled(h, bs, m, v) ==
    IF v = "split-area" /\ Len(h) > 0 THEN Tail(Project(h)) ELSE Project(h)

\* the rows of a render with these props: the useMemo callback reads the
\* history only
RowsFor(h, bs, m, v) == Project(h)

\* the parent re-renders PnlChart with one more history entry
AppendHistory(e) ==
    /\ mounted
    /\ height' = HeightAfterRender(height)
    /\ Len(history) < MaxHistLen
    /\ history' = Append(history, e)
    /\ data' = RowsFor(history', bots, mode, variant)
    /\ view' = Render(bots, mode, variant)
    /\ lastEv' = Ev("history", 0, 0)
    /\ UNCHANGED <<renderVars, mounted, bots, mode, variant, tooltip,
                   gesture>>

\* the parent re-renders PnlChart with another bots list
SetBots(bl) ==
    /\ mounted
    /\ height' = HeightAfterRender(height)
    /\ bl # bots
    /\ bots' = bl
    /\ data' = RowsFor(history, bl, mode, variant)
    /\ view' = Render(bl, mode, variant)
    /\ tooltip' = TooltipOf(tooltip.active, tooltip.payload, bl)
    /\ lastEv' = Ev("bots", 0, 0)
    /\ UNCHANGED <<renderVars, mounted, history, mode, variant, gesture>>

\* the parent re-renders PnlChart with another mode
SetMode(m) ==
    /\ mounted
    /\ height' = HeightAfterRender(height)
    /\ m # mode
    /\ mode' = m
    /\ data' = RowsFor(history, bots, m, variant)
    /\ view' = Render(bots, m, variant)
    /\ lastEv' = Ev("mode", 0, 0)
    /\ UNCHANGED <<renderVars, mounted, history, bots, variant, tooltip,
                   gesture>>

\* the parent re-renders PnlChart with another variant
SetVariant(v) ==
    /\ mounted
    /\ height' = HeightAfterRender(height)
    /\ v # variant
    /\ variant' = v
    /\ data' = RowsFor(history, bots, mode, v)
    /\ view' = Render(bots, mode, v)
    /\ lastEv' = Ev("variant", 0, 0)
    /\ UNCHANGED <<renderVars, mounted, history, bots, mode, tooltip,
                   gesture>>

----------------------------------------------------------------------------
(* The chart under pointer events and re-renders *)

NoGesture ==
    [dir |-> "bottom", x |-> 0, y |-> 0, h |-> InitialHeight, w |-> Null,
     offsetWidth |-> 0]

InitResize ==
    /\ height = InitialHeight
    /\ width = Null
    /\ dragging = FALSE
    /\ dir = "bottom"
    /\ startPos = [x |-> 0, y |-> 0]
    /\ startSize = [w |-> 0, h |-> 0]
    /\ listeners = 0
    /\ mounted = TRUE
    /\ lastEv = Ev("mount", 0, 0)
    /\ gesture = NoGesture

\* the first render: no pointer is over the chart yet
InitOut ==
    /\ view = Render(bots, mode, variant)
    /\ tooltip = TooltipOf(FALSE, <<>>, bots)

Init ==
    /\ InitResize
    /\ history = <<>>
    /\ bots = <<BotA, BotB>>
    /\ mode = "live"
    /\ variant = "minimal"
    /\ data = Project(history)
    /\ InitOut

Next ==
    \/ \E d \in Dirs, x \in Xs, y \in Ys, ow \in OffsetWidths :
          PointerDown(d, x, y, ow)
    \/ \E x \in Xs, y \in Ys : PointerMove(x, y)
    \/ PointerUp
    \/ Unmount

Spec == Init /\ [][Next]_vars

(* The chart under re-renders by its parent, interleaved with gestures *)

ChartYs == {0, 50}

NextChart ==
    \/ \E d \in Dirs : PointerDown(d, 0, 0, 600)
    \/ \E x \in Xs, y \in ChartYs : PointerMove(x, y)
    \/ PointerUp
    \/ Unmount
    \/ \E e \in LiveEntries : AppendHistory(e)
    \/ \E bl \in BotLists : SetBots(bl)
    \/ \E m \in Modes : SetMode(m)
    \/ \E v \in Variants : SetVariant(v)

SpecChart == Init /\ [][NextChart]_vars

(* The projection over every bounded history *)

InitProj ==
    /\ InitResize
    /\ history \in Histories(MaxHistLen)
    /\ bots = <<BotA, BotB>>
    /\ mode = "live"
    /\ variant = "minimal"
    /\ data = Project(history)
    /\ InitOut

NextProj == \E e \in Entries : AppendHistory(e)

SpecProj == InitProj /\ [][NextProj]_vars

(* The legend, the series and the encoding over the bots lists, modes and
   variants *)

InitView ==
    /\ InitResize
    /\ history = <<>>
    /\ bots \in ViewBotLists
    /\ mode \in Modes
    /\ variant = "minimal"
    /\ data = Project(history)
    /\ InitOut

NextView ==
    \/ \E e \in LiveEntries : AppendHistory(e)
    \/ \E bl \in ViewBotLists : SetBots(bl)
    \/ \E m \in Modes : SetMode(m)
    \/ \E v \in Variants : SetVariant(v)

SpecView == InitView /\ [][NextView]_vars

(* The tooltip over the payloads of the chart library *)

NextTooltip ==
    \/ \E active \in BOOLEAN :
          \E payload \in Payloads(MaxPayload) : Hover(active, payload)
    \/ \E bl \in BotLists : SetBots(bl)

SpecTooltip == Init /\ [][NextTooltip]_vars

TypeOK ==
    /\ height \in Int
    /\ dragging \in BOOLEAN
    /\ listeners \in 0..(MaxListeners + 1)

----------------------------------------------------------------------------
(* Properties of the resize controller *)

ClampTo(v, lo, hi) == IF v < lo THEN lo ELSE IF v > hi THEN hi ELSE v

\* the height a move to lastEv'.y would give without any clamping
RawHeight(ev) == gesture.h + (ev.y - gesture.y)

\* the width the gesture started from: the committed width, or the measured
\* container width while the width is still auto
GestureStartWidth ==
    IF gesture.w = Null THEN gesture.offsetWidth ELSE gesture.w[1]

MoveWhileDragging(ev) == ev.type = "move" /\ mounted /\ dragging

\* C1: in every reachable state the chart height lies in [200, 800], and a
\* pointer-move of a height-affecting drag whose delta would take the height
\* past a bound sets it to that bound, whatever the size of the delta.
C1_HeightClamped ==
    /\ [](height >= 200 /\ height <= 800)
    /\ [][(MoveWhileDragging(lastEv') /\ gesture.dir \in {"bottom", "corner"})
            => /\ RawHeight(lastEv') > 800 => height' = 800
               /\ RawHeight(lastEv') < 200 => height' = 200]_vars

\* a bottom drag by -100000 px left the height at the lower bound
C1_Witness ==
    /\ lastEv.type = "move" /\ dragging /\ gesture.dir = "bottom"
    /\ lastEv.y - gesture.y = -100000
    /\ height = 200

\* C2: while dragging with the bottom or corner handle, every pointer-move
\* sets height to clamp(startHeight + (pointerY - anchorY), 200, 800), with
\* startHeight and anchorY the height and pointer Y seen by the pointer-down
\* that started the gesture.
C2_DragHeight ==
    [][(MoveWhileDragging(lastEv') /\ gesture.dir \in {"bottom", "corner"})
        => height' = ClampTo(RawHeight(lastEv'), 200, 800)]_vars

\* from 360 a drag of dy = +50 gave 410
C2_Witness ==
    /\ lastEv.type = "move" /\ dragging /\ gesture.dir \in {"bottom", "corner"}
    /\ gesture.h = 360 /\ lastEv.y - gesture.y = 50
    /\ height = 410

\* C3: a pointer-move changes only the axis owned by the active handle: a
\* bottom drag never changes width, a right drag never changes height.
C3_OnlyOwnedAxis ==
    [][lastEv'.type = "move"
        => /\ gesture.dir = "bottom" => width' = width
           /\ gesture.dir = "right" => height' = height]_vars

\* a bottom drag resized the height while the width is still auto
C3_Witness ==
    /\ lastEv.type = "move" /\ dragging /\ gesture.dir = "bottom"
    /\ height # gesture.h
    /\ width = Null

\* C4: a pointer-up ends the gesture (not dragging, no listener left) and
\* keeps the dimensions; a pointer-move while idle leaves them unchanged.
C4_UpCommits ==
    [][/\ lastEv'.type = "up"
           => /\ ~dragging' /\ listeners' = 0
              /\ height' = height /\ width' = width
       /\ (~dragging /\ lastEv'.type = "move")
           => height' = height /\ width' = width]_vars

\* a pointer-move arrived after the pointer-up of a gesture that resized
C4_Witness ==
    /\ lastEv.type = "move" /\ ~dragging /\ listeners = 0
    /\ height # InitialHeight
    /\ lastEv.y # gesture.y

\* C5: after an unmount no listener pair and no dragging flag of the mount
\* is left.
C5_UnmountDetaches == ~mounted => (listeners = 0 /\ ~dragging)

\* C6: while dragging, any step that is not a pointer-up leaves the
\* controller dragging with its listeners attached; in particular another
\* pointer-down does not return it to idle.
C6_StaysDragging ==
    [][(dragging /\ lastEv'.type # "up")
        => (dragging' /\ listeners' >= 1)]_vars

\* a second pointer-down arrived during a gesture, and moves still resize
C6_Witness ==
    /\ dragging /\ listeners = 2
    /\ lastEv.type = "move"
    /\ height # gesture.h

\* C7: width is auto or at least 300, and every pointer-move of a right or
\* corner drag sets width to max(startWidth + (pointerX - anchorX), 300),
\* startWidth being the committed width or, while auto, the measured one.
C7_DragWidth ==
    /\ [](\A i \in DOMAIN width : width[i] >= 300)
    /\ [][(MoveWhileDragging(lastEv') /\ gesture.dir \in {"right", "corner"})
            => width' = Some(Max(GestureStartWidth + (lastEv'.x - gesture.x),
                                 300))]_vars

\* a second gesture started from a committed width that differs from the
\* measured one
C7_Witness ==
    /\ lastEv.type = "move" /\ dragging /\ gesture.dir \in {"right", "corner"}
    /\ gesture.w # Null /\ gesture.w # Some(gesture.offsetWidth)
    /\ width = Some(600)

\* C8: the viewport starts at height 360 and width auto, and only a
\* pointer-move of an active drag changes it; re-renders with another
\* history, bots list, mode or variant leave it unchanged.
C8_OnlyDragResizes ==
    /\ (height = 360 /\ width = Null)
    /\ [][(height' # height \/ width' # width)
            => (lastEv'.type = "move" /\ dragging)]_vars

\* the variant was switched to split-area after a drag, the size was kept
C8_Witness ==
    /\ lastEv.type = "variant" /\ variant = "split-area"
    /\ height = 410
    /\ Len(history) > 0

----------------------------------------------------------------------------
(* Properties of the projection *)

HasId(entry, id) == \E k \in 1..Len(entry.bots) : entry.bots[k].id = id

PnlOf(entry, id) ==
    LET k == CHOOSE j \in 1..Len(entry.bots) : entry.bots[j].id = id
    IN  entry.bots[k].pnl

\* C9: the projection has one row per history entry, in order, and row i
\* carries the timestamp of entry i, whatever the entity ids are.
C9_RowsCarryTimestamp ==
    /\ Len(data) = Len(history)
    /\ \A i \in 1..Len(history) :
          "t" \in DOMAIN data[i] /\ data[i]["t"] = history[i].t

\* C10: in the row of an entry the column of an entity is its value if the
\* entity is in the entry and is unset otherwise.
C10_ColumnsOfPresentEntities ==
    \A i \in 1..Len(history) : \A id \in Ids :
        IF HasId(history[i], id)
        THEN id \in DOMAIN data[i] /\ data[i][id] = PnlOf(history[i], id)
        ELSE id \notin DOMAIN data[i]

----------------------------------------------------------------------------
(* Properties of the tooltip, the legend and the encoding *)

Perms(n) == {f \in [1..n -> 1..n] : \A i, j \in 1..n : f[i] = f[j] => i = j}

\* the label of an entity: its strategy, or its id when it is not in bots
LabelOf(id) ==
    IF \E k \in 1..Len(bots) : bots[k].botId = id
    THEN bots[CHOOSE k \in 1..Len(bots) : bots[k].botId = id].strategy
    ELSE id

\* C11: for an active payload of k items the tooltip has exactly k rows,
\* the rows of the payload ordered by value descending with rows of equal
\* value in payload order; for an inactive or empty payload it shows nothing.
C11_TooltipRows ==
    LET p == tooltip.payload
        rows == tooltip.out.items
    IN  IF tooltip.active /\ Len(p) > 0
        THEN /\ tooltip.out.shown
             /\ Len(rows) = Len(p)
             /\ \A i, j \in 1..Len(rows) :
                   i < j => rows[i].value >= rows[j].value
             /\ \E f \in Perms(Len(p)) :
                   /\ \A i \in 1..Len(p) :
                         /\ rows[i].value = p[f[i]].value
                         /\ rows[i].color = p[f[i]].stroke
                         /\ rows[i].name = LabelOf(p[f[i]].dataKey)
                   /\ \A i, j \in 1..Len(p) :
                         (i < j /\ rows[i].value = rows[j].value)
                             => f[i] < f[j]
        ELSE ~tooltip.out.shown /\ rows = <<>>

\* three entities hovered, the first and the last tie below the second
C11_Witness ==
    /\ lastEv.type = "hover" /\ tooltip.active
    /\ Len(tooltip.payload) = 3
    /\ tooltip.payload[1].value = tooltip.payload[3].value
    /\ tooltip.payload[2].value > tooltip.payload[1].value
    /\ tooltip.out.shown

\* C12: the entity at position N (from 0) of the bots list has palette
\* colour N mod 8 as legend swatch and as series stroke, in every variant.
C12_ColourByPosition ==
    /\ Len(view.legend) = Len(bots)
    /\ Len(view.series) = Len(bots)
    /\ \A i \in 1..Len(bots) :
          /\ view.legend[i].key = bots[i].botId
          /\ view.series[i].dataKey = bots[i].botId
          /\ view.legend[i].swatch = LINE_COLORS[((i - 1) % 8) + 1]
          /\ view.series[i].stroke = LINE_COLORS[((i - 1) % 8) + 1]

\* nine bots in the area chart: the ninth has the first colour again
C12_Witness ==
    /\ Len(bots) = 9 /\ variant = "split-area"
    /\ view.series[9].stroke = "#58a6ff"
    /\ view.legend[9].swatch = "#58a6ff"

\* C13: a switch of the variant leaves the projected rows as they were.
C13_VariantKeepsRows ==
    [][lastEv'.type = "variant" => data' = data]_vars

\* the variant was switched to split-area over a history of two entries
C13_Witness ==
    /\ lastEv.type = "variant" /\ variant = "split-area"
    /\ Len(history) = 2 /\ Len(data) = 2
    /\ view.kind = "area"

\* the matrix of the variants: chart kind, grid, stroke width in tenths of a
\* pixel, gradient fill, glow
EncodingOf(v) ==
    CASE v = "minimal" ->
           [kind |-> "line", grid |-> "none", stroke |-> 15,
            fill |-> FALSE, glow |-> FALSE]
      [] v = "grid-glow" ->
           [kind |-> "line", grid |-> "dashed", stroke |-> 15,
            fill |-> FALSE, glow |-> FALSE]
      [] v = "split-area" ->
           [kind |-> "area", grid |-> "dashed", stroke |-> 15,
            fill |-> TRUE, glow |-> FALSE]
      [] v = "neon" ->
           [kind |-> "line", grid |-> "solid", stroke |-> 25,
            fill |-> FALSE, glow |-> TRUE]

\* C14: the rendered chart has the kind, grid, stroke width, fill and glow
\* of its variant in the matrix; the grid is never vertical, the zero line
\* is always there, no series has point markers or animation.
C14_EncodingMatrix ==
    LET m == EncodingOf(variant)
    IN  /\ view.kind = m.kind
        /\ view.grid.lines = m.grid
        /\ ~view.grid.vertical
        /\ view.zeroLine
        /\ view.neonDefs = m.glow
        /\ view.gradients = (IF m.fill THEN [i \in 1..Len(bots) |-> bots[i].botId]
                             ELSE <<>>)
        /\ \A i \in 1..Len(view.series) :
              /\ view.series[i].strokeWidth = m.stroke
              /\ view.series[i].glow = m.glow
              /\ view.series[i].fill =
                     (IF m.fill THEN <<bots[i].botId>> ELSE <<>>)
              /\ ~view.series[i].dot
              /\ ~view.series[i].activeDot
              /\ ~view.series[i].isAnimationActive

\* the neon chart of at least two bots
C14_Witness ==
    /\ lastEv.type = "variant" /\ variant = "neon"
    /\ Len(view.series) >= 2
    /\ view.series[2].glow /\ view.series[2].strokeWidth = 25

\* C15: the legend has one row per bot in the order of the bots list, with
\* livePnl in live mode and realizedPnl in realized mode; a change of mode
\* leaves the projected rows as they were.
C15_LegendRows ==
    /\ [](/\ Len(view.legend) = Len(bots)
           /\ \A i \in 1..Len(bots) :
                 /\ view.legend[i].key = bots[i].botId
                 /\ view.legend[i].label = bots[i].strategy
                 /\ (mode = "live"
                        => view.legend[i].val = bots[i].livePnl)
                 /\ (mode = "realized"
                        => view.legend[i].val = bots[i].realizedPnl))
    /\ [][lastEv'.type = "mode" => data' = data]_vars

\* realized mode over rows, with a legend that is not in value order
C15_Witness ==
    /\ lastEv.type = "mode" /\ mode = "realized"
    /\ Len(data) > 0
    /\ Len(bots) >= 2
    /\ view.legend[1].val < view.legend[2].val
    /\ view.legend[1].val # bots[1].livePnl

----------------------------------------------------------------------------
(* Properties of the listeners *)

\* C16: every pointer-down adds one listener pair, a pointer-up runs every
\* attached onUp and leaves no pair and no dragging flag, and whenever the
\* controller is idle no pair is attached.
C16_NoListenerWhenIdle ==
    /\ [](~dragging => listeners = 0)
    /\ [][/\ (lastEv'.type = "down" => listeners' = listeners + 1)
           /\ (lastEv'.type = "up"
                 => /\ lastEv'.n = listeners
                    /\ listeners' = 0
                    /\ ~dragging')]_vars

\* one pointer-up after two pointer-downs removed both pairs
C16_Witness ==
    /\ lastEv.type = "up" /\ lastEv.n = 2
    /\ listeners = 0
    /\ ~dragging

====
